---- MODULE Spec2Model ----
(***************************************************************************)
(* A model of patinkin_extract.py: the Rectangle value type, the detection *)
(* log loader, the grouping generator PatinkinData.grouped, and the        *)
(* variant/export loop process_variants with PatinkinData.extract_ffmpeg.  *)
(*                                                                         *)
(* Numbers.  Python computes the geometry in binary floating point.  All   *)
(* inputs of the model are integers (pixels, frames) or multiples of 1/4   *)
(* (scale factors, pad seconds), so every intermediate value is a multiple *)
(* of 1/8 and is exact in a double.  A coordinate is therefore kept as an  *)
(* integer count of 1/Unit pixels.  max_gap_seconds is a rational          *)
(* <<num, den>>; (d / fps > gap) is decided by cross-multiplication, which *)
(* agrees with the floating comparison for the small operands used here    *)
(* (equal reals round to equal doubles, distinct ones differ by far more   *)
(* than an ulp).                                                           *)
(***************************************************************************)
EXTENDS Integers, Sequences, FiniteSets, TLC

VARIABLES
    fps, width, height,  \* header of the detection log (PatinkinData.fps, ...)
    log,                 \* the tsv file: its header line and detection lines
    detections,          \* PatinkinData.detections
    gens,                \* the generator objects made by PatinkinData.grouped
    rect, prev, lastOp, args,   \* a Rectangle under a chain of transforms
    cfg,                 \* the lists given to process_variants
    cur,                 \* process_variants: where its nested loops are
    issued,              \* the extraction requests handed to ffmpeg so far
    handed,              \* the calls of extract_ffmpeg made: group, rect, pad
    crashed              \* an exception has ended the run

vars == <<fps, width, height, log, detections, gens,
          rect, prev, lastOp, args, cfg, cur, issued, handed, crashed>>

(***************************************************************************)
(* Bounds of the model.                                                    *)
(***************************************************************************)
MaxLog == 3        \* detection lines in a log
MaxFrame == 3      \* frame indices 0..MaxFrame
MaxCoord == 2      \* rectangle coordinates 0..MaxCoord in the geometry runs
MaxDim == 2        \* frame width/height 1..MaxDim in the geometry runs
MaxScaleQ == 8     \* scale factors 0/4 .. MaxScaleQ/4
MaxPadQ == 3       \* pad seconds 0/4 .. MaxPadQ/4

\* Scale factors and pad seconds are multiples of 1/ScaleDen.
ScaleDen == 2 * 2
\* A coordinate c is kept as the integer c * Unit (midpoints add a factor 2).
Unit == 2 * ScaleDen

Num(i) == i * Unit

Max(a, b) == IF a > b THEN a ELSE b
Min(a, b) == IF a < b THEN a ELSE b

SetMin(S) == CHOOSE x \in S : \A y \in S : x <= y
SetMax(S) == CHOOSE x \in S : \A y \in S : x >= y

Range(s) == {s[i] : i \in 1..Len(s)}

(***************************************************************************)
(* Rectangle                                                               *)
(***************************************************************************)
Rectangle(x_min, y_min, x_max, y_max) ==
    [x_min |-> x_min, y_min |-> y_min, x_max |-> x_max, y_max |-> y_max]

\* midpoint sorts its two arguments first.
midpoint(a, b) ==
    LET lo == Min(a, b)
        hi == Max(a, b)
    IN  ((hi - lo) \div 2) + lo

center(r) == <<midpoint(r.x_min, r.x_max), midpoint(r.y_min, r.y_max)>>

\* The factor 1.0, the default of w.
One == ScaleDen

\* scale_from_center(*a): a holds the positional arguments given, factors in
\* units of 1/ScaleDen.  h is None when not given, and (h or w) takes w for
\* every falsy h: None and 0 alike.
scale_from_center(r, a) ==
    LET c == center(r)
        halfx == r.x_max - c[1]
        halfy == r.y_max - c[2]
        w == IF Len(a) >= 1 THEN a[1] ELSE One
        sx == w
        sy == IF Len(a) < 2 \/ a[2] = 0 THEN w ELSE a[2]
        hx == (halfx * sx) \div ScaleDen
        hy == (halfy * sy) \div ScaleDen
    IN  Rectangle(c[1] - hx, c[2] - hy, c[1] + hx, c[2] + hy)

clip_to_both(r) ==
    Rectangle(Min(Max(r.x_min, 0), Num(width)), Min(Max(r.y_min, 0), Num(height)),
              Max(Min(r.x_max, Num(width)), 0), Max(Min(r.y_max, Num(height)), 0))

\* clip_to(patinkin_data), with the width and height of the loaded log.
clip_to(r) ==
    LET x == Num(width)
        y == Num(height)
    IN  Rectangle(IF r.x_min > 0 THEN r.x_min ELSE 0,
                  IF r.y_min > 0 THEN r.y_min ELSE 0,
                  IF r.x_max < x THEN r.x_max ELSE x,
                  IF r.y_max < y THEN r.y_max ELSE y)

\* Python's round() of a float: to the nearest integer, ties to the even one.
py_round(v) ==
    LET q == v \div Unit
        m == v % Unit
    IN  IF 2 * m < Unit THEN q
        ELSE IF 2 * m > Unit THEN q + 1
        ELSE IF q % 2 = 0 THEN q ELSE q + 1

\* Rectangle.round(); the result holds Python ints.
round(r) ==
    Rectangle(Num(py_round(r.x_min)), Num(py_round(r.y_min)),
              Num(py_round(r.x_max)), Num(py_round(r.y_max)))

\* Rectangle.w, .h, .x, .y of a rounded rectangle, in pixels.
rect_w(r) == (r.x_max - r.x_min) \div Unit
rect_h(r) == (r.y_max - r.y_min) \div Unit

(***************************************************************************)
(* Detection log                                                           *)
(***************************************************************************)
PatinkinDetection_in_line_order(frame, top, right, bottom, left) ==
    [frame |-> frame, rect |-> Rectangle(top, right, bottom, left)]

\* A log line holds frame, top, right, bottom, left, in this order.
PatinkinDetection(frame, top, right, bottom, left) ==
    [frame |-> frame, rect |-> Rectangle(left, top, right, bottom)]

\* read_line_ints and the list comprehension of __init__: detection object i
\* is made from line i.
LoadDetections(lines) ==
    [i \in 1..Len(lines) |->
        PatinkinDetection(lines[i][1], Num(lines[i][2]), Num(lines[i][3]),
                          Num(lines[i][4]), Num(lines[i][5]))]

(***************************************************************************)
(* PatinkinDetectionGroup                                                  *)
(***************************************************************************)
\* A group's list holds references to the detection objects of
\* PatinkinData.detections: g is the sequence of their indices.
frame_start(g) == detections[g[1]].frame
frame_end(g) == detections[g[Len(g)]].frame
frames(g) == frame_end(g) - frame_start(g)

each_detection_rect_get(g, prop) ==
    {detections[g[i]].rect[prop] : i \in 1..Len(g)}

coverage_rectangle(g) ==
    Rectangle(SetMin(each_detection_rect_get(g, "x_min")),
              SetMin(each_detection_rect_get(g, "y_min")),
              SetMax(each_detection_rect_get(g, "x_max")),
              SetMax(each_detection_rect_get(g, "y_max")))

(***************************************************************************)
(* PatinkinData.grouped                                                    *)
(***************************************************************************)
\* max(max_gap_seconds, 1.0 / self.fps), as a rational <<num, den>>.
clamp_gap(gap) ==
    IF gap[1] * fps >= gap[2] THEN gap ELSE <<1, fps>>

should_split_ge(frame_no, last_frame_no, gap) ==
    (frame_no - last_frame_no) * gap[2] >= gap[1] * fps

\* (frame_no - last_frame_no) / float(self.fps) > max_gap_seconds
should_split(frame_no, last_frame_no, gap) ==
    (frame_no - last_frame_no) * gap[2] > gap[1] * fps

IterStartShared ==
    1 + SetMax({0} \cup {gens[h].pos - 1 : h \in {k \in DOMAIN gens : gens[k].pc # "idle"}})

\* "for detection in self.detections" iterates a list: every call of grouped
\* starts at its first element.
IterStart == 1


\* The body of the generator from one suspension to the next: the for loop
\* from detection i on, up to the next yield or to the end of the function.
\* splits collects the lines at which should_split held (a new run starts).
RECURSIVE Loop(_, _, _, _, _)
Loop(i, last_frame_no, detection_group, gap, splits) ==
    IF i > Len(detections)
    THEN [pc |-> IF detection_group # <<>> THEN "yield_final" ELSE "done",
          pos |-> i, last_frame_no |-> last_frame_no,
          detection_group |-> detection_group, splits |-> splits]
    ELSE LET detection == detections[i] IN
         IF should_split(detection.frame, last_frame_no, gap)
         THEN IF Len(detection_group) > 1
              THEN [pc |-> "yield_loop", pos |-> i,
                    last_frame_no |-> last_frame_no,
                    detection_group |-> detection_group,
                    splits |-> splits \cup {i}]
              ELSE Loop(i + 1, detection.frame, <<i>>, gap, splits \cup {i})
         ELSE Loop(i + 1, detection.frame, Append(detection_group, i), gap,
                   splits)

\* A generator object that does not exist (yet, or any more).
NoGen ==
    [pc |-> "idle", max_gap_seconds |-> <<0, 1>>, gap |-> <<0, 1>>, pos |-> 1,
     last_frame_no |-> 0, detection_group |-> <<>>, splits |-> {},
     out |-> <<>>]

\* grouped(max_gap_seconds) only makes the generator object; no line of the
\* body runs before the first next().
NewGen(max_gap_seconds) ==
    [NoGen EXCEPT !.pc = "created", !.max_gap_seconds = max_gap_seconds]

\* One next() on generator state g: run to the next yield or to the end.
\* The yielded group, if any, is appended to out (what the consumer has seen).
Resume(g) ==
    LET gap == IF g.pc = "created" THEN clamp_gap(g.max_gap_seconds) ELSE g.gap
        st == CASE g.pc = "created" ->
                     Loop(IterStart, 0, <<>>, gap, {})
                 [] g.pc = "yield_loop" ->
                     Loop(g.pos + 1, detections[g.pos].frame, <<g.pos>>, gap,
                          g.splits)
                 [] OTHER ->
                     [pc |-> "done", pos |-> g.pos,
                      last_frame_no |-> g.last_frame_no,
                      detection_group |-> g.detection_group,
                      splits |-> g.splits]
    IN  [pc |-> st.pc, max_gap_seconds |-> g.max_gap_seconds, gap |-> gap,
         pos |-> st.pos, last_frame_no |-> st.last_frame_no,
         detection_group |-> st.detection_group, splits |-> st.splits,
         out |-> IF st.pc \in {"yield_loop", "yield_final"}
                 THEN Append(g.out, st.detection_group) ELSE g.out]

(***************************************************************************)
(* Inputs of the grouping runs                                             *)
(***************************************************************************)
GenIds == {1, 2}

\* max_gap_seconds: 0, 0.2 and 1.0.
Gaps == {<<0, 1>>, <<1, 5>>, <<1, 1>>}

FpsValues == {1, 2}

\* top, right, bottom, left of the faces a line may hold.
Boxes == {<<100, 200, 300, 50>>, <<120, 260, 280, 90>>}

\* The logs of up to MaxLog lines, in any frame order, over the given faces.
LogsOver(boxes) ==
    UNION {[1..n -> {<<f>> \o b : f \in 0..MaxFrame, b \in boxes}] :
              n \in 0..MaxLog}

Logs == LogsOver(Boxes)

ScenarioBox == <<100, 200, 300, 50>>

ScenarioLine(f) == <<f>> \o ScenarioBox

\* The logs of the documented scenarios, at fps 30 and 1920x1080.
ScenarioLogs ==
    { <<ScenarioLine(10), ScenarioLine(11), ScenarioLine(12)>>,
      <<ScenarioLine(10), ScenarioLine(50)>>,
      <<ScenarioLine(10), ScenarioLine(11), ScenarioLine(12), ScenarioLine(13)>> }

NoRect == Rectangle(0, 0, 0, 0)
NoArgs == <<>>
NoCfg == [max_gaps |-> <<>>, scales |-> <<>>, pads |-> <<>>]
NoCur == [pc |-> "idle", gi |-> 1, gen |-> NoGen, group |-> <<>>, pi |-> 1,
          si |-> 1]

\* PatinkinData.__init__
LoadLog(f, w, h, lines) ==
    /\ log = [header |-> <<f, w, h>>, lines |-> lines]
    /\ fps = f
    /\ width = w
    /\ height = h
    /\ detections = LoadDetections(lines)

RectIdle ==
    /\ rect = NoRect
    /\ prev = NoRect
    /\ lastOp = "none"
    /\ args = NoArgs

VariantsIdle ==
    /\ cfg = NoCfg
    /\ cur = NoCur
    /\ issued = {}
    /\ handed = {}
    /\ crashed = FALSE

\* A loaded log and no call of grouped yet.
InitGroup ==
    /\ \/ \E f \in FpsValues, lines \in Logs : LoadLog(f, 320, 300, lines)
       \/ \E lines \in ScenarioLogs : LoadLog(30, 1920, 1080, lines)
    /\ gens = [g \in GenIds |-> NoGen]
    /\ RectIdle
    /\ VariantsIdle

\* The same over the logs of one face: what the calls are compared on does
\* not depend on the rectangles.
InitRegroup ==
    /\ \/ \E f \in FpsValues, lines \in LogsOver({ScenarioBox}) :
             LoadLog(f, 320, 300, lines)
       \/ \E lines \in ScenarioLogs : LoadLog(30, 1920, 1080, lines)
    /\ gens = [g \in GenIds |-> NoGen]
    /\ RectIdle
    /\ VariantsIdle

Call(g, max_gap_seconds) ==
    /\ gens[g].pc = "idle"
    /\ gens' = [gens EXCEPT ![g] = NewGen(max_gap_seconds)]
    /\ UNCHANGED <<fps, width, height, log, detections, rect, prev, lastOp,
                   args, cfg, cur, issued, handed, crashed>>

GenNext(g) ==
    /\ gens[g].pc \in {"created", "yield_loop", "yield_final"}
    /\ gens' = [gens EXCEPT ![g] = Resume(gens[g])]
    /\ UNCHANGED <<fps, width, height, log, detections, rect, prev, lastOp,
                   args, cfg, cur, issued, handed, crashed>>

\* The caller drops a generator, consumed to its end or not.
Discard(g) ==
    /\ gens[g].pc # "idle"
    /\ gens' = [gens EXCEPT ![g] = NoGen]
    /\ UNCHANGED <<fps, width, height, log, detections, rect, prev, lastOp,
                   args, cfg, cur, issued, handed, crashed>>

\* One generator at a time, consumed by its caller.
NextGroup ==
    \/ \E gap \in Gaps : Call(1, gap)
    \/ GenNext(1)
    \/ Discard(1)

SpecGroup == InitGroup /\ [][NextGroup]_vars

\* Several generators over the same PatinkinData, consumed in any
\* interleaving: a generator runs only inside a next() of its consumer.
NextRegroup ==
    \/ \E g \in GenIds, gap \in Gaps : Call(g, gap)
    \/ \E g \in GenIds : GenNext(g)
    \/ \E g \in GenIds : Discard(g)

SpecRegroup == InitRegroup /\ [][NextRegroup]_vars


(***************************************************************************)
(* Properties of grouped                                                   *)
(***************************************************************************)
\* Every segment some generator has yielded so far.
Yielded == UNION {Range(gens[g].out) : g \in GenIds}

\* The generators whose body has run (the first next() has been made).
Started == {g \in GenIds : gens[g].pc \in {"yield_loop", "yield_final", "done"}}

\* C1: every segment yielded by grouped holds at least 2 detections, the
\* final flush after the loop included.
C1_EverySegmentHasTwoDetections ==
    \A seg \in Yielded : Len(seg) >= 2

\* d frames apart is within max(max_gap_seconds, 1/fps) seconds:
\* d / fps <= max(num / den, 1 / fps).
WithinGap(d, max_gap_seconds) ==
    d * max_gap_seconds[2] <= Max(max_gap_seconds[1] * fps, max_gap_seconds[2])

\* C2: with T = max(max_gap_seconds, 1/fps), detections adjacent inside a
\* yielded segment are at most T apart; detections adjacent in the log that
\* are placed in different runs are more than T apart; and with
\* max_gap_seconds = 0 frames N and N+1 land in the same segment.
C2_GapThreshold ==
    \A g \in Started :
        LET gap == gens[g].max_gap_seconds IN
        /\ \A k \in 1..Len(gens[g].out) :
              LET seg == gens[g].out[k] IN
              \A j \in 1..(Len(seg) - 1) :
                  WithinGap(detections[seg[j + 1]].frame
                                - detections[seg[j]].frame, gap)
        /\ \A i \in gens[g].splits :
              i > 1 => ~WithinGap(log.lines[i][1] - log.lines[i - 1][1], gap)
        /\ (gens[g].pc = "done" /\ gap[1] = 0) =>
              \A i \in 2..Len(log.lines) :
                  log.lines[i][1] = log.lines[i - 1][1] + 1 =>
                      \E seg \in Range(gens[g].out) :
                          \E j \in 1..(Len(seg) - 1) :
                              seg[j] = i - 1 /\ seg[j + 1] = i

\* A consumed generator that kept a pair exactly T apart together and
\* started a new run at a later line.
C2_Witness ==
    \E g \in Started :
        LET gap == gens[g].max_gap_seconds IN
        /\ gens[g].pc = "done"
        /\ \E seg \in Range(gens[g].out) : \E j \in 1..(Len(seg) - 1) :
              (detections[seg[j + 1]].frame - detections[seg[j]].frame)
                  * gap[2] = Max(gap[1] * fps, gap[2])
        /\ \E i \in gens[g].splits : i > 1

\* C3: the frame indices inside every yielded segment are strictly
\* increasing, so frame_start < frame_end.
C3_SegmentFramesStrictlyIncreasing ==
    \A seg \in Yielded :
        /\ \A j \in 1..(Len(seg) - 1) :
              detections[seg[j]].frame < detections[seg[j + 1]].frame
        /\ frame_start(seg) < frame_end(seg)

\* C4: the coverage rectangle of a segment is (min left, min top, max right,
\* max bottom) over the log lines of its detections, a line being
\* frame, top, right, bottom, left.
C4_CoverageIsBoundingBox ==
    \A seg \in Yielded :
        LET ids == Range(seg)
            cov == coverage_rectangle(seg)
            IsMin(v, field) == /\ \E i \in ids : v = Num(log.lines[i][field])
                               /\ \A i \in ids : v <= Num(log.lines[i][field])
            IsMax(v, field) == /\ \E i \in ids : v = Num(log.lines[i][field])
                               /\ \A i \in ids : v >= Num(log.lines[i][field])
        IN  /\ IsMin(cov.x_min, 5)
            /\ IsMin(cov.y_min, 2)
            /\ IsMax(cov.x_max, 3)
            /\ IsMax(cov.y_max, 4)

\* Frames 10, 11, 12 with (top=100, right=200, bottom=300, left=50) at fps 30
\* and max_gap_seconds 0.2: one segment, coverage (50, 100, 200, 300).
C4_Witness ==
    \E g \in GenIds :
        /\ fps = 30
        /\ gens[g].pc = "done"
        /\ gens[g].max_gap_seconds = <<1, 5>>
        /\ Len(gens[g].out) = 1
        /\ Len(gens[g].out[1]) = 3
        /\ frame_start(gens[g].out[1]) = 10
        /\ frame_end(gens[g].out[1]) = 12
        /\ coverage_rectangle(gens[g].out[1])
             = Rectangle(Num(50), Num(100), Num(200), Num(300))

\* Two generators made with the same max_gap_seconds have yielded the same
\* segments (the same detections, hence the same boundaries and coverage
\* rectangles) as far as both have got, and all the same once both are done.
SameGapAgree ==
    \A g, h \in GenIds :
        (/\ gens[g].pc # "idle"
         /\ gens[h].pc # "idle"
         /\ gens[g].max_gap_seconds = gens[h].max_gap_seconds) =>
            LET n == Min(Len(gens[g].out), Len(gens[h].out)) IN
            /\ SubSeq(gens[g].out, 1, n) = SubSeq(gens[h].out, 1, n)
            /\ (gens[g].pc = "done" /\ gens[h].pc = "done") =>
                  gens[g].out = gens[h].out

\* C10: grouped is restartable and idempotent: two calls with the same
\* max_gap_seconds yield identical segment boundaries and coverage
\* rectangles, whatever other calls run before or between them and however
\* far those were consumed, and the detection list and fps/width/height
\* stay what the loader read from the file.
C10_GroupingIsRestartable ==
    /\ detections = LoadDetections(log.lines)
    /\ <<fps, width, height>> = log.header
    /\ SameGapAgree

\* One call left suspended at its first yield, a second call with the same
\* max_gap_seconds consumed to its end with two segments.
C10_Witness ==
    /\ gens[1].pc = "yield_loop"
    /\ gens[2].pc = "done"
    /\ gens[1].max_gap_seconds = gens[2].max_gap_seconds
    /\ Len(gens[2].out) = 2
    /\ Len(gens[1].out) = 1


(***************************************************************************)
(* The Rectangle transforms, applied in the order the callers use them:    *)
(* coverage -> scale_from_center -> clip_to -> round.                      *)
(***************************************************************************)
Coords == 0..MaxCoord

Factors == 0..MaxScaleQ

\* The ways scale_from_center is called: (), (w) and (w, h).
ScaleArgs == {<<>>} \cup {<<w>> : w \in Factors} \cup (Factors \X Factors)

GroupIdle ==
    /\ log = [header |-> <<1, width, height>>, lines |-> <<>>]
    /\ fps = 1
    /\ detections = <<>>
    /\ gens = [g \in GenIds |-> NoGen]

InitRect ==
    /\ \/ /\ width \in 1..MaxDim
          /\ height \in 1..MaxDim
          /\ \E x1, y1, x2, y2 \in Coords :
                rect = Rectangle(Num(x1), Num(y1), Num(x2), Num(y2))
       \/ /\ width = 80
          /\ height = 80
          /\ rect = Rectangle(Num(10), Num(10), Num(100), Num(100))
    /\ prev = NoRect
    /\ lastOp = "none"
    /\ args = <<>>
    /\ GroupIdle
    /\ VariantsIdle

Scale(a) ==
    /\ lastOp = "none"
    /\ rect' = scale_from_center(rect, a)
    /\ prev' = rect
    /\ lastOp' = "scale"
    /\ args' = a
    /\ UNCHANGED <<fps, width, height, log, detections, gens, cfg, cur,
                   issued, handed, crashed>>

Clip ==
    /\ lastOp \in {"none", "scale", "clip"}
    /\ rect' = clip_to(rect)
    /\ prev' = rect
    /\ lastOp' = "clip"
    /\ args' = <<>>
    /\ UNCHANGED <<fps, width, height, log, detections, gens, cfg, cur,
                   issued, handed, crashed>>

Round ==
    /\ lastOp \in {"none", "scale", "clip"}
    /\ rect' = round(rect)
    /\ prev' = rect
    /\ lastOp' = "round"
    /\ args' = <<>>
    /\ UNCHANGED <<fps, width, height, log, detections, gens, cfg, cur,
                   issued, handed, crashed>>

NextRect ==
    \/ \E a \in ScaleArgs : Scale(a)
    \/ Clip
    \/ Round

SpecRect == InitRect /\ [][NextRect]_vars

\* C7: for factors w, h >= 0, scale_from_center keeps the center and
\* multiplies the half-width by w and the half-height by h, an explicitly
\* passed 0 included; h is w only when h is omitted (and w is 1.0 when
\* omitted too), so scale_from_center(1.0) is the identity.
C7_ScaleFromCenter ==
    lastOp = "scale" =>
        LET w == IF Len(args) >= 1 THEN args[1] ELSE One
            h == IF Len(args) >= 2 THEN args[2] ELSE w
            c == center(prev)
        IN  /\ center(rect) = c
            /\ (rect.x_max - c[1]) * ScaleDen = (prev.x_max - c[1]) * w
            /\ (rect.y_max - c[2]) * ScaleDen = (prev.y_max - c[2]) * h
            /\ (c[1] - rect.x_min) * ScaleDen = (prev.x_max - c[1]) * w
            /\ (c[2] - rect.y_min) * ScaleDen = (prev.y_max - c[2]) * h
            /\ args = <<One>> => rect = prev

\* C8: clip_to only raises x_min, y_min to 0 and lowers x_max, y_max to the
\* frame's width, height, leaving in-bounds edges and the opposite corner
\* alone, and applying it again changes nothing.
C8_ClipIsProjection ==
    lastOp = "clip" =>
        /\ rect.x_min = Max(prev.x_min, 0)
        /\ rect.y_min = Max(prev.y_min, 0)
        /\ rect.x_max = Min(prev.x_max, Num(width))
        /\ rect.y_max = Min(prev.y_max, Num(height))
        /\ clip_to(rect) = rect

\* (10,10,100,100) scaled by (2.0, 1.0) is (-35,10,145,100); clipped to
\* 80x80 it is (0,10,80,80), which rounding leaves as it is.
C8_Witness ==
    /\ lastOp = "clip"
    /\ width = 80
    /\ height = 80
    /\ prev = Rectangle(Num(-35), Num(10), Num(145), Num(100))
    /\ rect = Rectangle(Num(0), Num(10), Num(80), Num(80))
    /\ round(rect) = rect


(***************************************************************************)
(* process_variants and PatinkinData.extract_ffmpeg                        *)
(***************************************************************************)
\* str() of a Python int, as its sequence of characters.
DigitChar == <<"0", "1", "2", "3", "4", "5", "6", "7", "8", "9">>

RECURSIVE Str(_)
Str(n) ==
    IF n < 0 THEN <<"-">> \o Str(-n)
    ELSE IF n < 10 THEN <<DigitChar[n + 1]>>
    ELSE Str(n \div 10) \o <<DigitChar[(n % 10) + 1]>>

\* int(x) of a float x = n / d: truncation toward zero.
py_int(n, d) == IF n >= 0 THEN n \div d ELSE -((-n) \div d)

pad_frames_round(pad_secs) == py_round(2 * pad_secs * fps)

\* int(pad_secs * self.fps), pad_secs in units of 1/ScaleDen.
pad_frames(pad_secs) == py_int(pad_secs * fps, ScaleDen)

video_path == <<"v", ".", "m", "p", "4">>

\* The text the md5 digest is taken of.  The digest itself (its first 8 hex
\* digits) is not computed: equal texts give equal digests, and the model
\* takes distinct texts to give distinct ones.
fingerprint(group, r) ==
    video_path \o (Str(rect_w(r)) \o Str(rect_h(r)))
               \o (Str(frame_start(group)) \o Str(frame_end(group)))

\* out_name: "%06x" and "%04d" are one-to-one on the integers, so the name
\* is kept as the triple of what is formatted.
out_name(group, r, pad_secs) ==
    <<frame_start(group) - pad_frames(pad_secs),
      frames(group) + pad_frames(pad_secs) * 2,
      fingerprint(group, r)>>

\* The request extract_ffmpeg hands to ffmpeg.  seek and to are
\* time_start_seconds - pad_secs and time_end_seconds + pad_secs in units of
\* 1/(fps * ScaleDen) s.  The rescale target int(w * s), int(h * s) is left
\* out; its s = min(max_dim / w, max_dim / h) decides only whether the call
\* raises (ExtractFfmpegRaises).
Request(group, r, pad_secs) ==
    [out_name |-> out_name(group, r, pad_secs),
     crop |-> <<rect_w(r), rect_h(r), r.x_min \div Unit, r.y_min \div Unit>>,
     seek |-> frame_start(group) * ScaleDen - pad_secs * fps,
     to |-> frame_end(group) * ScaleDen + pad_secs * fps,
     frames |-> frames(group) + (pad_frames(pad_secs) * 2),
     frame_start |-> frame_start(group),
     frame_end |-> frame_end(group),
     pad_secs |-> pad_secs]

\* xs, xy = (scale + scale)[:2], then coverage -> scale -> clip -> round.
variant_rect(group, scale) ==
    round(clip_to(scale_from_center(coverage_rectangle(group),
                                    SubSeq(scale \o scale, 1, 2))))

ShortLists(S) == {<<x>> : x \in S} \cup (S \X S)

\* Scale tuples: (0,), (0.25,), (1.0, 1.0), (2.0, 1.0), (1.5, 1.25).
VariantScales == {<<0>>, <<1>>, <<4, 4>>, <<8, 4>>, <<6, 5>>}

\* Logs as patinkin_detect writes them: one line per matched frame, frames
\* increasing.
IncreasingLogs ==
    {l \in LogsOver({ScenarioBox}) :
        \A i \in 1..(Len(l) - 1) : l[i][1] < l[i + 1][1]}

InitVariants ==
    /\ \E f \in FpsValues, lines \in IncreasingLogs : LoadLog(f, 320, 300, lines)
    /\ gens = [g \in GenIds |-> NoGen]
    /\ RectIdle
    /\ cfg \in [max_gaps : {<<g>> : g \in Gaps} \cup {<<<<0, 1>>, <<1, 1>>>>},
                scales : ShortLists(VariantScales),
                pads : ShortLists(0..MaxPadQ)]
    /\ cur = [NoCur EXCEPT !.pc = "fetch", !.gen = NewGen(cfg.max_gaps[1])]
    /\ issued = {}
    /\ handed = {}
    /\ crashed = FALSE

\* "for i, group in enumerate(data.grouped(gap))" asks the generator of the
\* current gap for its next group; when it has none left, "for gap in
\* max_gaps" goes on to the next gap, or process_variants returns.
NextVariantGroup ==
    /\ cur.pc = "fetch"
    /\ \E g \in {Resume(cur.gen)} :
          cur' = IF g.pc # "done"
                 THEN [cur EXCEPT !.gen = g, !.group = g.out[Len(g.out)],
                                  !.pi = 1, !.si = 1,
                                  !.pc = IF cfg.pads = <<>> \/ cfg.scales = <<>>
                                         THEN "fetch" ELSE "body"]
                 ELSE IF cur.gi < Len(cfg.max_gaps)
                 THEN [cur EXCEPT !.gi = cur.gi + 1,
                                  !.gen = NewGen(cfg.max_gaps[cur.gi + 1])]
                 ELSE [cur EXCEPT !.gen = g, !.pc = "end"]
    /\ UNCHANGED <<fps, width, height, log, detections, gens, rect, prev,
                   lastOp, args, cfg, issued, handed, crashed>>

\* The arguments of one call extract_ffmpeg(group, rect, pad).
Handed(group, r, pad_secs) == [group |-> group, rect |-> r, pad_secs |-> pad_secs]

\* "for pad in pads: for scale in scales": the loops' next position.
NextIteration ==
    IF cur.si < Len(cfg.scales) THEN [cur EXCEPT !.si = cur.si + 1]
    ELSE IF cur.pi < Len(cfg.pads) THEN [cur EXCEPT !.pi = cur.pi + 1, !.si = 1]
    ELSE [cur EXCEPT !.pc = "fetch"]

\* One iteration whose extract_ffmpeg call returns: the request is run.
ExtractFfmpeg ==
    /\ cur.pc = "body"
    /\ \E r \in {variant_rect(cur.group, cfg.scales[cur.si])} :
          /\ rect_w(r) # 0
          /\ rect_h(r) # 0
          /\ handed' = handed \cup {Handed(cur.group, r, cfg.pads[cur.pi])}
          /\ issued' = issued \cup {Request(cur.group, r, cfg.pads[cur.pi])}
    /\ cur' = NextIteration
    /\ UNCHANGED <<fps, width, height, log, detections, gens, rect, prev,
                   lastOp, args, cfg, crashed>>

\* One iteration whose extract_ffmpeg call divides by a zero width or
\* height: ZeroDivisionError ends process_variants.
ExtractFfmpegRaises ==
    /\ cur.pc = "body"
    /\ \E r \in {variant_rect(cur.group, cfg.scales[cur.si])} :
          /\ ~(rect_w(r) # 0 /\ rect_h(r) # 0)
          /\ handed' = handed \cup {Handed(cur.group, r, cfg.pads[cur.pi])}
    /\ cur' = [cur EXCEPT !.pc = "raised"]
    /\ crashed' = TRUE
    /\ UNCHANGED <<fps, width, height, log, detections, gens, rect, prev,
                   lastOp, args, cfg, issued>>

NextVariants ==
    \/ NextVariantGroup
    \/ ExtractFfmpeg
    \/ ExtractFfmpegRaises

SpecVariants == InitVariants /\ [][NextVariants]_vars

\* The requests made for a segment of increasing frames (two detections at
\* least): the ones that remain whatever grouped does with single detections.
ProperRequests == {req \in issued : req.frame_start < req.frame_end}

\* C5 as stated: the request's frame count is segment.frame_count +
\* 2 * pad_frames with pad_frames = round(pad_seconds * fps), rounded to the
\* nearest integer.
C5_FrameCountRoundsPad ==
    \A req \in ProperRequests :
        /\ req.frames = (req.frame_end - req.frame_start)
                          + 2 * py_round(2 * req.pad_secs * fps)
        /\ req.out_name[2] = req.frames

\* C5 amended: the request's frame count, in the 'frames' parameter and in
\* the output name, is (frame_end - frame_start) + 2 * pad_frames with
\* pad_frames = int(pad_seconds * fps): the product truncated, never rounded
\* up.
C5_FrameCountTruncatesPad ==
    \A req \in issued :
        /\ req.frames = (req.frame_end - req.frame_start)
                          + 2 * ((req.pad_secs * fps) \div ScaleDen)
        /\ req.out_name[2] = req.frames

\* A request whose pad_seconds * fps has a fraction above one half, where
\* rounding and truncating differ.
C5_Witness ==
    \E req \in ProperRequests :
        2 * ((req.pad_secs * fps) % ScaleDen) > ScaleDen

\* C6: two requests of one run that differ in crop rectangle, segment frame
\* range or pad never get the same output path.
C6_DistinctRequestsDistinctPaths ==
    \A r1, r2 \in ProperRequests :
        (\/ r1.crop # r2.crop
         \/ <<r1.frame_start, r1.frame_end>> # <<r2.frame_start, r2.frame_end>>
         \/ r1.pad_secs # r2.pad_secs) => r1.out_name # r2.out_name

\* C9: process_variants hands extract_ffmpeg only rectangles with
\* x_min < x_max and y_min < y_max (here: for the segments of two
\* detections at least), so that no rescale computation divides by zero.
C9_OnlyProperRectanglesHanded ==
    \A c \in handed :
        Len(c.group) >= 2 =>
            /\ c.rect.x_min < c.rect.x_max
            /\ c.rect.y_min < c.rect.y_max

====
